---- MODULE Spec2Model ----
(***************************************************************************)
(* Selection engine of the tree view (useTreeViewSelection plugin).        *)
(*                                                                         *)
(* The engine keeps the selection model (models.selectedItems.value), the  *)
(* anchor (lastSelectedItem) and the lookup of the last applied range      *)
(* (lastSelectedRange).  It reads the tree through instance helpers        *)
(* (order oracle, range extractor, navigable items) and reports changes    *)
(* through two optional callbacks.                                         *)
(***************************************************************************)
EXTENDS Integers, Sequences, FiniteSets

\* ------------------------------------------------------------------------
\* Bounds of the model
\* ------------------------------------------------------------------------

\* longest selection array an arrow step may still extend
MaxSelected == 3

\* ------------------------------------------------------------------------
\* Items and the shape of the tree
\* ------------------------------------------------------------------------

\* null item id
NoItem == 0

\* The tree of the model, as the parent of each item: item 2 is nested in
\* item 1, items 1 and 3 are root items.
TreeParents == <<NoItem, 1, NoItem>>

Nodes == DOMAIN TreeParents

ParentOf(id) == TreeParents[id]

VARIABLES
    params,            \* multiSelect, disableSelection and the two callbacks
    selectedItems,     \* models.selectedItems.value
    lastSelectedItem,  \* lastSelectedItem.current (the anchor)
    lastSelectedRange, \* lastSelectedRange.current (set of the keys of the lookup)
    orderedChildren,   \* tree index: parent id -> ordered child ids
    expandedItems,     \* tree index: ids of the expanded items
    disabledItems,     \* tree index: ids of the disabled items
    lastCall,          \* name of the last engine method called
    events,            \* the callbacks invoked by the last engine call, in order
    frame              \* the call in progress (its locals), idle between calls

treeVars == <<orderedChildren, expandedItems, disabledItems>>
vars == <<params, selectedItems, lastSelectedItem, lastSelectedRange,
          orderedChildren, expandedItems, disabledItems, lastCall, events, frame>>

\* ------------------------------------------------------------------------
\* Shape of the selection value: a scalar id or null (single select), or an
\* array of ids (multi select)
\* ------------------------------------------------------------------------

Scalar(id) == [isArray |-> FALSE, id |-> id, items |-> <<>>]

Array(items) == [isArray |-> TRUE, id |-> NoItem, items |-> items]

Null == Scalar(NoItem)

\* the ids of a sequence, as a set
IdsOf(seq) == {seq[i] : i \in DOMAIN seq}

\* seq without the ids of the set s, order kept
RECURSIVE Without(_, _)
Without(seq, s) ==
    IF seq = <<>> THEN <<>>
    ELSE IF Head(seq) \in s THEN Without(Tail(seq), s)
    ELSE <<Head(seq)>> \o Without(Tail(seq), s)

convertSelectedItemsToArray(model) ==
    IF model.isArray THEN model.items
    ELSE IF model.id # NoItem THEN <<model.id>>
    ELSE <<>>

getLookupFromArray(array) == IdsOf(array)

\* selectedItemsMap / isItemSelected
isItemSelected(itemId) == itemId \in IdsOf(convertSelectedItemsToArray(selectedItems))

\* ------------------------------------------------------------------------
\* Tree index, order oracle and range extractor
\* ------------------------------------------------------------------------

\* the items below the given siblings, in document order (pre-order)
RECURSIVE PreOrderFrom(_)
PreOrderFrom(siblings) ==
    IF siblings = <<>> THEN <<>>
    ELSE <<Head(siblings)>> \o PreOrderFrom(orderedChildren[Head(siblings)])
                            \o PreOrderFrom(Tail(siblings))

allItems == PreOrderFrom(orderedChildren[NoItem])

IndexOf(seq, id) == CHOOSE i \in DOMAIN seq : seq[i] = id

isItemDisabled(id) == id \in disabledItems

\* every ancestor of the item is expanded
RECURSIVE isItemVisible(_)
isItemVisible(id) ==
    \/ ParentOf(id) = NoItem
    \/ ParentOf(id) \in expandedItems /\ isItemVisible(ParentOf(id))

isItemNavigable(id) == isItemVisible(id) /\ ~isItemDisabled(id)

getAllNavigableItems == SelectSeq(allItems, isItemNavigable)

getFirstNavigableItem ==
    IF getAllNavigableItems = <<>> THEN NoItem ELSE Head(getAllNavigableItems)

getLastNavigableItem ==
    IF getAllNavigableItems = <<>> THEN NoItem
    ELSE getAllNavigableItems[Len(getAllNavigableItems)]

\* order oracle: the pair in document order (pre-order: an ancestor precedes
\* its descendants, siblings follow the order of their parent's children)
findOrderInTremauxTree(itemAId, itemBId) ==
    LET all == allItems
    IN  IF IndexOf(all, itemAId) <= IndexOf(all, itemBId)
        THEN <<itemAId, itemBId>>
        ELSE <<itemBId, itemAId>>

\* range extractor: the navigable items between the two items, both included,
\* in document order; empty when an end is absent from the tree
getNonDisabledItemsInRange(itemAId, itemBId) ==
    IF itemAId \notin Nodes \/ itemBId \notin Nodes THEN <<>>
    ELSE LET o   == findOrderInTremauxTree(itemAId, itemBId)
             all == allItems
         IN  SelectSeq(SubSeq(all, IndexOf(all, o[1]), IndexOf(all, o[2])),
                       isItemNavigable)

\* ------------------------------------------------------------------------
\* Change notifications
\* ------------------------------------------------------------------------

\* one call of onItemSelectionToggle(event, item, isSelected)
Toggle(item, isSelected) == [callback |-> "onItemSelectionToggle", value |-> item,
                             isSelected |-> isSelected]

\* one call of onSelectedItemsChange(event, newSelectedItems)
Change(newSelectedItems) == [callback |-> "onSelectedItemsChange",
                             value |-> newSelectedItems, isSelected |-> FALSE]

\* one toggle call per id of the array, in the order of the array
TogglesOf(array, isSelected) ==
    [i \in 1 .. Len(array) |-> Toggle(Scalar(array[i]), isSelected)]

\* newSelectedItems !== models.selectedItems.value (arrays compare by identity and
\* a computed array is always a new one)
NotSame(newSelectedItems, oldSelectedItems) ==
    \/ newSelectedItems.isArray
    \/ oldSelectedItems.isArray
    \/ newSelectedItems.id # oldSelectedItems.id

\* ItemToggles that reports the removed items before the added ones
ItemToggles_RemovesFirst(newSelectedItems) ==
    IF ~params.onItemSelectionToggle THEN <<>>
    ELSE IF params.multiSelect
    THEN LET old          == convertSelectedItemsToArray(selectedItems)
             new          == convertSelectedItemsToArray(newSelectedItems)
             addedItems   == Without(new, IdsOf(old))
             removedItems == Without(old, IdsOf(new))
         IN  TogglesOf(removedItems, FALSE) \o TogglesOf(addedItems, TRUE)
    ELSE IF NotSame(newSelectedItems, selectedItems)
    THEN (IF selectedItems # Null THEN <<Toggle(selectedItems, FALSE)>> ELSE <<>>)
         \o (IF newSelectedItems # Null THEN <<Toggle(newSelectedItems, TRUE)>> ELSE <<>>)
    ELSE <<>>

\* the calls of onItemSelectionToggle made by setSelectedItems
ItemToggles(newSelectedItems) ==
    IF ~params.onItemSelectionToggle THEN <<>>
    ELSE IF params.multiSelect
    THEN LET old          == convertSelectedItemsToArray(selectedItems)
             new          == convertSelectedItemsToArray(newSelectedItems)
             addedItems   == Without(new, IdsOf(old))
             removedItems == Without(old, IdsOf(new))
         IN  TogglesOf(addedItems, TRUE) \o TogglesOf(removedItems, FALSE)
    ELSE IF NotSame(newSelectedItems, selectedItems)
    THEN (IF selectedItems # Null THEN <<Toggle(selectedItems, FALSE)>> ELSE <<>>)
         \o (IF newSelectedItems # Null THEN <<Toggle(newSelectedItems, TRUE)>> ELSE <<>>)
    ELSE <<>>

\* the call of onSelectedItemsChange made by setSelectedItems
AggregateChange(newSelectedItems) ==
    IF params.onSelectedItemsChange THEN <<Change(newSelectedItems)>> ELSE <<>>

setSelectedItems(newSelectedItems) ==
    /\ selectedItems' = newSelectedItems
    /\ events' = ItemToggles(newSelectedItems) \o AggregateChange(newSelectedItems)

\* ------------------------------------------------------------------------
\* Values computed by the engine methods
\* ------------------------------------------------------------------------

\* selectItemValue in which a plain click on a selected item deselects it
selectItemValue_TogglesOff(model, itemId, multiple) ==
    IF multiple
    THEN LET cleanSelectedItems == convertSelectedItemsToArray(model)
         IN  IF itemId \in IdsOf(cleanSelectedItems)
             THEN Array(Without(cleanSelectedItems, {itemId}))
             ELSE Array(<<itemId>> \o cleanSelectedItems)
    ELSE IF itemId \in IdsOf(convertSelectedItemsToArray(model))
    THEN (IF params.multiSelect THEN Array(<<>>) ELSE Null)
    ELSE IF params.multiSelect THEN Array(<<itemId>>) ELSE Scalar(itemId)

\* selectItemValue that adds the item at the end
selectItemValue_Appends(model, itemId, multiple) ==
    IF multiple
    THEN LET cleanSelectedItems == convertSelectedItemsToArray(model)
         IN  IF itemId \in IdsOf(cleanSelectedItems)
             THEN Array(Without(cleanSelectedItems, {itemId}))
             ELSE Array(cleanSelectedItems \o <<itemId>>)
    ELSE IF params.multiSelect THEN Array(<<itemId>>) ELSE Scalar(itemId)

\* newSelected of selectItem
selectItemValue(model, itemId, multiple) ==
    IF multiple
    THEN LET cleanSelectedItems == convertSelectedItemsToArray(model)
         IN  IF itemId \in IdsOf(cleanSelectedItems)
             THEN Array(Without(cleanSelectedItems, {itemId}))
             ELSE Array(<<itemId>> \o cleanSelectedItems)
    ELSE IF params.multiSelect THEN Array(<<itemId>>) ELSE Scalar(itemId)

\* selectRangeValue that walks the tree from start to end as they are given
selectRangeValue_AssumesOrder(model, lastRange, start, end) ==
    LET current == convertSelectedItemsToArray(model)
        kept    == IF Cardinality(lastRange) > 0 THEN Without(current, lastRange)
                   ELSE current
        all     == allItems
        range   == SelectSeq(SubSeq(all, IndexOf(all, start), IndexOf(all, end)),
                             isItemNavigable)
    IN  Array(kept \o Without(range, getLookupFromArray(kept)))

\* selectRangeValue that leaves the ids of the last range in the model
selectRangeValue_KeepsLastRange(model, lastRange, start, end) ==
    LET kept  == convertSelectedItemsToArray(model)
        range == getNonDisabledItemsInRange(start, end)
    IN  Array(kept \o Without(range, getLookupFromArray(kept)))

\* newSelectedItems of selectRange
selectRangeValue(model, lastRange, start, end) ==
    LET current == convertSelectedItemsToArray(model)
        kept    == IF Cardinality(lastRange) > 0 THEN Without(current, lastRange)
                   ELSE current
        selectedItemsLookup == getLookupFromArray(kept)
        range   == getNonDisabledItemsInRange(start, end)
        itemsToAddToModel == Without(range, selectedItemsLookup)
    IN  Array(kept \o itemsToAddToModel)

\* lastSelectedRange.current after selectRange
selectRangeLookup(start, end) == getLookupFromArray(getNonDisabledItemsInRange(start, end))

\* arrowNavigationLookup that never resets the range
arrowNavigationLookup_NoReset(lastRange, currentItem, nextItem) ==
    IF Cardinality(lastRange) = 0 THEN {currentItem, nextItem}
    ELSE IF nextItem \in lastRange THEN lastRange \ {currentItem}
    ELSE lastRange \cup {nextItem}

\* lastSelectedRange.current after selectItemFromArrowNavigation
arrowNavigationLookup(lastRange, currentItem, nextItem) ==
    IF Cardinality(lastRange) = 0 THEN {currentItem, nextItem}
    ELSE LET reset == IF currentItem \notin lastRange THEN {} ELSE lastRange
         IN  IF nextItem \in reset THEN reset \ {currentItem}
             ELSE reset \cup {nextItem}

\* arrowNavigationValue that never takes the step back
arrowNavigationValue_NoRetreat(model, lastRange, currentItem, nextItem) ==
    Array(Append(convertSelectedItemsToArray(model), nextItem))

\* newSelectedItems of selectItemFromArrowNavigation
arrowNavigationValue(model, lastRange, currentItem, nextItem) ==
    LET current == convertSelectedItemsToArray(model)
    IN  IF Cardinality(lastRange) = 0 THEN Array(Append(current, nextItem))
        ELSE LET reset == IF currentItem \notin lastRange THEN {} ELSE lastRange
             IN  IF nextItem \in reset THEN Array(Without(current, {currentItem}))
                 ELSE Array(Append(current, nextItem))

\* ------------------------------------------------------------------------
\* The call in progress
\* ------------------------------------------------------------------------

\* the value, the anchor and the last range, as one triple
Triple == <<lastSelectedItem, lastSelectedRange, selectedItems>>

\* no call in progress
Idle == [pc |-> "idle", newSelectedItems |-> Null, itemId |-> NoItem,
         range |-> {}, entry |-> <<NoItem, {}, Null>>]

\* A call that is invoking the callbacks of setSelectedItems: its local
\* newSelectedItems, the item of selectItem, the range of selectRange or
\* selectAllNavigableItems, and the triple at the entry of the call.
Notifying(newSelectedItems, itemId, range) ==
    [pc |-> "notify", newSelectedItems |-> newSelectedItems, itemId |-> itemId,
     range |-> range, entry |-> Triple]

\* ------------------------------------------------------------------------
\* Engine methods
\* ------------------------------------------------------------------------

\* a method that returns early: nothing is written, no callback is invoked
Return ==
    /\ events' = <<>>
    /\ UNCHANGED <<selectedItems, lastSelectedItem, lastSelectedRange>>

\* selectItem that leaves the last range as it was
selectItem_KeepsRange(itemId, multiple) ==
    /\ lastCall' = "selectItem"
    /\ IF params.disableSelection THEN Return
       ELSE /\ setSelectedItems(selectItemValue(selectedItems, itemId, multiple))
            /\ lastSelectedItem' = itemId
            /\ UNCHANGED lastSelectedRange
    /\ UNCHANGED <<params, treeVars, frame>>

selectItem(itemId, multiple) ==
    /\ lastCall' = "selectItem"
    /\ IF params.disableSelection THEN Return
       ELSE /\ setSelectedItems(selectItemValue(selectedItems, itemId, multiple))
            /\ lastSelectedItem' = itemId
            /\ lastSelectedRange' = {}
    /\ UNCHANGED <<params, treeVars, frame>>

\* selectRange that moves the anchor to the end of the range
selectRange_MovesAnchor(start, end) ==
    IF params.disableSelection \/ ~params.multiSelect THEN Return
    ELSE /\ lastSelectedItem' = end
         /\ lastSelectedRange' = selectRangeLookup(start, end)
         /\ setSelectedItems(selectRangeValue(selectedItems, lastSelectedRange, start, end))

\* selectRange without the check of disableSelection
selectRange_NoDisableCheck(start, end) ==
    IF ~params.multiSelect THEN Return
    ELSE /\ UNCHANGED lastSelectedItem
         /\ lastSelectedRange' = selectRangeLookup(start, end)
         /\ setSelectedItems(selectRangeValue(selectedItems, lastSelectedRange, start, end))

selectRange(start, end) ==
    IF params.disableSelection \/ ~params.multiSelect THEN Return
    ELSE /\ UNCHANGED lastSelectedItem
         /\ lastSelectedRange' = selectRangeLookup(start, end)
         /\ setSelectedItems(selectRangeValue(selectedItems, lastSelectedRange, start, end))

\* expandSelectionRange that does not test the anchor: without an anchor the
\* range runs from the clicked item to itself
expandSelectionRange_NoAnchorCheck(itemId) ==
    /\ lastCall' = "expandSelectionRange"
    /\ IF lastSelectedItem # NoItem
       THEN LET o == findOrderInTremauxTree(itemId, lastSelectedItem)
            IN  selectRange(o[1], o[2])
       ELSE selectRange(itemId, itemId)
    /\ UNCHANGED <<params, treeVars, frame>>

\* expandSelectionRange that selects the clicked item only
expandSelectionRange_IgnoresAnchor(itemId) ==
    /\ lastCall' = "expandSelectionRange"
    /\ IF lastSelectedItem # NoItem THEN selectRange(itemId, itemId) ELSE Return
    /\ UNCHANGED <<params, treeVars, frame>>

expandSelectionRange(itemId) ==
    /\ lastCall' = "expandSelectionRange"
    /\ IF lastSelectedItem # NoItem
       THEN LET o == findOrderInTremauxTree(itemId, lastSelectedItem)
            IN  selectRange(o[1], o[2])
       ELSE Return
    /\ UNCHANGED <<params, treeVars, frame>>

selectRangeFromStartToItem(itemId) ==
    /\ lastCall' = "selectRangeFromStartToItem"
    /\ selectRange(getFirstNavigableItem, itemId)
    /\ UNCHANGED <<params, treeVars, frame>>

selectRangeFromItemToEnd(itemId) ==
    /\ lastCall' = "selectRangeFromItemToEnd"
    /\ selectRange(itemId, getLastNavigableItem)
    /\ UNCHANGED <<params, treeVars, frame>>

\* selectAllNavigableItems that leaves the last range as it was
selectAllNavigableItems_KeepsRange ==
    /\ lastCall' = "selectAllNavigableItems"
    /\ IF params.disableSelection \/ ~params.multiSelect THEN Return
       ELSE /\ setSelectedItems(Array(getAllNavigableItems))
            /\ UNCHANGED <<lastSelectedItem, lastSelectedRange>>
    /\ UNCHANGED <<params, treeVars, frame>>

selectAllNavigableItems ==
    /\ lastCall' = "selectAllNavigableItems"
    /\ IF params.disableSelection \/ ~params.multiSelect THEN Return
       ELSE /\ setSelectedItems(Array(getAllNavigableItems))
            /\ lastSelectedRange' = getLookupFromArray(getAllNavigableItems)
            /\ UNCHANGED lastSelectedItem
    /\ UNCHANGED <<params, treeVars, frame>>

\* selectItemFromArrowNavigation without the check of multiSelect
selectItemFromArrowNavigation_NoModeCheck(currentItem, nextItem) ==
    /\ lastCall' = "selectItemFromArrowNavigation"
    /\ IF params.disableSelection THEN Return
       ELSE LET newSelectedItems ==
                    arrowNavigationValue(selectedItems, lastSelectedRange,
                                         currentItem, nextItem)
            IN  /\ Len(newSelectedItems.items) <= MaxSelected
                /\ lastSelectedRange' =
                       arrowNavigationLookup(lastSelectedRange, currentItem, nextItem)
                /\ setSelectedItems(newSelectedItems)
                /\ UNCHANGED lastSelectedItem
    /\ UNCHANGED <<params, treeVars, frame>>

selectItemFromArrowNavigation(currentItem, nextItem) ==
    /\ lastCall' = "selectItemFromArrowNavigation"
    /\ IF params.disableSelection \/ ~params.multiSelect THEN Return
       ELSE LET newSelectedItems ==
                    arrowNavigationValue(selectedItems, lastSelectedRange,
                                         currentItem, nextItem)
            IN  /\ Len(newSelectedItems.items) <= MaxSelected
                /\ lastSelectedRange' =
                       arrowNavigationLookup(lastSelectedRange, currentItem, nextItem)
                /\ setSelectedItems(newSelectedItems)
                /\ UNCHANGED lastSelectedItem
    /\ UNCHANGED <<params, treeVars, frame>>

\* ------------------------------------------------------------------------
\* The host: it reorders siblings, expands and collapses items and switches
\* the disableSelection prop
\* ------------------------------------------------------------------------

Swap(seq, i) == [seq EXCEPT ![i] = seq[i + 1], ![i + 1] = seq[i]]

SwapItems(parent, i) ==
    /\ i \in 1 .. Len(orderedChildren[parent]) - 1
    /\ orderedChildren' = [orderedChildren EXCEPT ![parent] = Swap(@, i)]
    /\ UNCHANGED <<params, selectedItems, lastSelectedItem, lastSelectedRange,
                   expandedItems, disabledItems, lastCall, events, frame>>

ToggleItemExpansion(itemId) ==
    /\ orderedChildren[itemId] # <<>>
    /\ expandedItems' = IF itemId \in expandedItems THEN expandedItems \ {itemId}
                        ELSE expandedItems \cup {itemId}
    /\ UNCHANGED <<params, selectedItems, lastSelectedItem, lastSelectedRange,
                   orderedChildren, disabledItems, lastCall, events, frame>>

SetDisableSelection ==
    /\ params' = [params EXCEPT !.disableSelection = ~@]
    /\ UNCHANGED <<selectedItems, lastSelectedItem, lastSelectedRange,
                   treeVars, lastCall, events, frame>>

\* ------------------------------------------------------------------------
\* The engine methods step by step: a call runs up to the callbacks of
\* setSelectedItems, the host runs inside the callbacks, and the call then
\* writes the value and what the method writes after setSelectedItems
\* ------------------------------------------------------------------------

\* an early return, seen from outside the call
ReturnIdle == Return /\ UNCHANGED frame

\* setSelectedItems up to its callbacks: nothing is written to the model yet
invokeCallbacks(newSelectedItems, itemId, range) ==
    /\ events' = ItemToggles(newSelectedItems) \o AggregateChange(newSelectedItems)
    /\ frame' = Notifying(newSelectedItems, itemId, range)
    /\ UNCHANGED <<selectedItems, lastSelectedItem>>

selectItemCall(itemId, multiple) ==
    /\ frame.pc = "idle"
    /\ lastCall' = "selectItem"
    /\ IF params.disableSelection THEN ReturnIdle
       ELSE /\ invokeCallbacks(selectItemValue(selectedItems, itemId, multiple),
                               itemId, {})
            /\ UNCHANGED lastSelectedRange
    /\ UNCHANGED <<params, treeVars>>

selectRangeCall(start, end) ==
    IF params.disableSelection \/ ~params.multiSelect THEN ReturnIdle
    ELSE /\ invokeCallbacks(selectRangeValue(selectedItems, lastSelectedRange, start, end),
                            NoItem, selectRangeLookup(start, end))
         /\ UNCHANGED lastSelectedRange

expandSelectionRangeCall(itemId) ==
    /\ frame.pc = "idle"
    /\ lastCall' = "expandSelectionRange"
    /\ IF lastSelectedItem # NoItem
       THEN LET o == findOrderInTremauxTree(itemId, lastSelectedItem)
            IN  selectRangeCall(o[1], o[2])
       ELSE ReturnIdle
    /\ UNCHANGED <<params, treeVars>>

selectRangeFromStartToItemCall(itemId) ==
    /\ frame.pc = "idle"
    /\ lastCall' = "selectRangeFromStartToItem"
    /\ selectRangeCall(getFirstNavigableItem, itemId)
    /\ UNCHANGED <<params, treeVars>>

selectRangeFromItemToEndCall(itemId) ==
    /\ frame.pc = "idle"
    /\ lastCall' = "selectRangeFromItemToEnd"
    /\ selectRangeCall(itemId, getLastNavigableItem)
    /\ UNCHANGED <<params, treeVars>>

selectAllNavigableItemsCall ==
    /\ frame.pc = "idle"
    /\ lastCall' = "selectAllNavigableItems"
    /\ IF params.disableSelection \/ ~params.multiSelect THEN ReturnIdle
       ELSE /\ invokeCallbacks(Array(getAllNavigableItems), NoItem,
                               getLookupFromArray(getAllNavigableItems))
            /\ UNCHANGED lastSelectedRange
    /\ UNCHANGED <<params, treeVars>>

\* the last range is written before setSelectedItems is called
selectItemFromArrowNavigationCall(currentItem, nextItem) ==
    /\ frame.pc = "idle"
    /\ lastCall' = "selectItemFromArrowNavigation"
    /\ IF params.disableSelection \/ ~params.multiSelect THEN ReturnIdle
       ELSE LET newSelectedItems ==
                    arrowNavigationValue(selectedItems, lastSelectedRange,
                                         currentItem, nextItem)
            IN  /\ Len(newSelectedItems.items) <= MaxSelected
                /\ lastSelectedRange' =
                       arrowNavigationLookup(lastSelectedRange, currentItem, nextItem)
                /\ invokeCallbacks(newSelectedItems, NoItem, {})
    /\ UNCHANGED <<params, treeVars>>

\* The callbacks have returned: setControlledValue, then the writes the method
\* makes after setSelectedItems, then the call returns.
setControlledValue ==
    /\ frame.pc = "notify"
    /\ selectedItems' = frame.newSelectedItems
    /\ IF lastCall = "selectItem"
       THEN lastSelectedItem' = frame.itemId /\ lastSelectedRange' = {}
       ELSE IF lastCall = "selectItemFromArrowNavigation"
       THEN UNCHANGED <<lastSelectedItem, lastSelectedRange>>
       ELSE lastSelectedRange' = frame.range /\ UNCHANGED lastSelectedItem
    /\ frame' = Idle
    /\ UNCHANGED <<params, treeVars, lastCall, events>>

\* ------------------------------------------------------------------------
\* Specifications
\* ------------------------------------------------------------------------

\* the children of a parent, by increasing id
ChildrenOf(parent) ==
    SelectSeq([i \in Nodes |-> i], LAMBDA id : ParentOf(id) = parent)

\* state after construction, the props and the flags of the items given
InitWith(props, disabled, expanded) ==
    /\ params = props
    /\ selectedItems = IF params.multiSelect THEN Array(<<>>) ELSE Null
    /\ lastSelectedItem = NoItem
    /\ lastSelectedRange = {}
    /\ orderedChildren = [parent \in {NoItem} \cup Nodes |-> ChildrenOf(parent)]
    /\ expandedItems = expanded
    /\ disabledItems = disabled
    /\ lastCall = "none"
    /\ events = <<>>
    /\ frame = Idle

\* The items the user can click or reach with the keyboard.
Navigable == {id \in Nodes : isItemNavigable(id)}

\* The calls of the engine: the user acts on navigable items, and an arrow
\* step leads from one item to another one.
Engine ==
    \/ \E itemId \in Navigable, multiple \in BOOLEAN : selectItem(itemId, multiple)
    \/ \E itemId \in Navigable : expandSelectionRange(itemId)
    \/ \E itemId \in Navigable : selectRangeFromStartToItem(itemId)
    \/ \E itemId \in Navigable : selectRangeFromItemToEnd(itemId)
    \/ selectAllNavigableItems
    \/ \E currentItem \in Navigable : \E nextItem \in Navigable \ {currentItem} :
           selectItemFromArrowNavigation(currentItem, nextItem)

\* Selection enabled, both callbacks given; the host changes the tree.
Init ==
    \E multiSelect \in BOOLEAN, disabled \in {{}, {1}} :
        InitWith([multiSelect |-> multiSelect, disableSelection |-> FALSE,
                  onItemSelectionToggle |-> TRUE, onSelectedItemsChange |-> TRUE],
                 disabled, {})

Next ==
    \/ Engine
    \/ \E parent \in {NoItem} \cup Nodes, i \in Nodes : SwapItems(parent, i)
    \/ \E itemId \in Nodes : ToggleItemExpansion(itemId)

Spec == Init /\ [][Next]_vars

\* Any props, every item navigable; the host switches disableSelection.
InitProps ==
    \E props \in [multiSelect : BOOLEAN, disableSelection : BOOLEAN,
                  onItemSelectionToggle : BOOLEAN, onSelectedItemsChange : BOOLEAN] :
        InitWith(props, {}, {1})

NextProps ==
    \/ Engine
    \/ SetDisableSelection

SpecProps == InitProps /\ [][NextProps]_vars

\* The calls of the engine, step by step.
EngineCalls ==
    \/ \E itemId \in Navigable, multiple \in BOOLEAN : selectItemCall(itemId, multiple)
    \/ \E itemId \in Navigable : expandSelectionRangeCall(itemId)
    \/ \E itemId \in Navigable : selectRangeFromStartToItemCall(itemId)
    \/ \E itemId \in Navigable : selectRangeFromItemToEndCall(itemId)
    \/ selectAllNavigableItemsCall
    \/ \E currentItem \in Navigable : \E nextItem \in Navigable \ {currentItem} :
           selectItemFromArrowNavigationCall(currentItem, nextItem)

\* Selection enabled, both callbacks given, no item disabled; the host expands
\* and collapses items between the calls and inside the callbacks.
InitSteps ==
    \E multiSelect \in BOOLEAN :
        InitWith([multiSelect |-> multiSelect, disableSelection |-> FALSE,
                  onItemSelectionToggle |-> TRUE, onSelectedItemsChange |-> TRUE],
                 {}, {})

NextSteps ==
    \/ EngineCalls
    \/ setControlledValue
    \/ \E itemId \in Nodes : ToggleItemExpansion(itemId)

SpecSteps == InitSteps /\ [][NextSteps]_vars

\* ------------------------------------------------------------------------
\* Properties
\* ------------------------------------------------------------------------

\* the selected ids, in the order of the selection value
SelectedSeq == convertSelectedItemsToArray(selectedItems)

SelectedIds == IdsOf(SelectedSeq)

\* the ids of the sequence that are not in the set, order kept
Drop(seq, s) == SelectSeq(seq, LAMBDA id : id \notin s)

\* the callbacks of the last call that report an item as selected / deselected
Reported(isSelected) ==
    {i \in DOMAIN events : /\ events[i].callback = "onItemSelectionToggle"
                           /\ events[i].isSelected = isSelected}

RangeMethods == {"expandSelectionRange", "selectRangeFromStartToItem",
                 "selectRangeFromItemToEnd"}

MultiOnlyMethods == RangeMethods \cup {"selectAllNavigableItems",
                                       "selectItemFromArrowNavigation"}

\* a step made by a call of one of the named engine methods
CallOf(methods) == lastCall' \in methods /\ UNCHANGED <<params, treeVars>>

Enabled == ~params.disableSelection

Multi == params.multiSelect

\* the pairs (start, end) that a call of the method can hand to selectRange
HandedToSelectRange(method) ==
    IF method = "expandSelectionRange"
    THEN IF lastSelectedItem = NoItem THEN {}
         ELSE {findOrderInTremauxTree(itemId, lastSelectedItem) : itemId \in Nodes}
    ELSE IF method = "selectRangeFromStartToItem"
    THEN {<<getFirstNavigableItem, itemId>> : itemId \in Nodes}
    ELSE {<<itemId, getLastNavigableItem>> : itemId \in Nodes}

\* C1: in Multi mode with selection enabled, selectRange(start, end) yields the
\* current value without the ids of the last range (order kept), followed by
\* the ids of the range between start and end that are not in that remainder,
\* in tree order; the last range becomes the id set of that range.
C1_SelectRange ==
    [][(Multi /\ Enabled /\ CallOf(RangeMethods)) =>
         \A pair \in HandedToSelectRange(lastCall') :
             selectRange(pair[1], pair[2]) =>
                 LET remainder == Drop(selectedItems.items, lastSelectedRange)
                     between   == getNonDisabledItemsInRange(pair[1], pair[2])
                 IN  /\ selectedItems' = Array(remainder \o Drop(between, IdsOf(remainder)))
                     /\ lastSelectedRange' = IdsOf(between)]_vars

\* a range call has replaced an earlier range: some id of the old range was
\* deselected, some id was added, and an id outside the new range is kept
C1_Witness ==
    /\ Multi /\ Enabled /\ lastCall \in RangeMethods
    /\ Reported(FALSE) # {} /\ Reported(TRUE) # {}
    /\ lastSelectedRange # {}
    /\ lastSelectedRange \subseteq SelectedIds
    /\ SelectedIds \ lastSelectedRange # {}

\* C2: range replacement keeps the selection held before the first range: from a
\* Multi-mode selection S with no range applied, selectRange(A, B) followed by
\* selectRange(A, C) leaves exactly S together with the navigable ids between
\* A and C selected.
C2_RangeReplacement ==
    (Multi /\ Enabled /\ lastSelectedRange = {}) =>
        \A a, b, c \in Nodes :
            LET first  == selectRangeValue(selectedItems, lastSelectedRange, a, b)
                second == selectRangeValue(first, selectRangeLookup(a, b), a, c)
            IN  IdsOf(second.items) =
                    SelectedIds \cup IdsOf(getNonDisabledItemsInRange(a, c))

\* C3: with selection enabled every selectItem(itemId, multiple) ends with the
\* anchor on itemId and the last range empty, in both modes; a range operation
\* (selectRange through one of its three entry points, or an arrow step) that
\* follows it deselects nothing.
C3_SelectSetsAnchor ==
    [][/\ (Enabled /\ CallOf({"selectItem"})) =>
              \A itemId \in Nodes, multiple \in BOOLEAN :
                  selectItem(itemId, multiple) =>
                      (lastSelectedItem' = itemId /\ lastSelectedRange' = {})
       /\ (/\ Enabled /\ lastCall = "selectItem"
           /\ CallOf(RangeMethods \cup {"selectItemFromArrowNavigation"})) =>
              SelectedIds \subseteq IdsOf(convertSelectedItemsToArray(selectedItems'))
      ]_vars

\* a select has cleared the range of an earlier range operation
C3_Witness ==
    /\ Enabled /\ lastCall = "selectItem"
    /\ lastSelectedItem \in Nodes /\ lastSelectedRange = {}
    /\ Cardinality(SelectedIds) >= 2
    /\ Reported(TRUE) # {}

\* C4: in Multi mode selectItem(itemId, multiple = FALSE) replaces the value by
\* [itemId]; with multiple = TRUE it puts itemId at the front when itemId is not
\* selected and removes itemId in place when it is selected.
C4_SelectMulti ==
    [][(Multi /\ Enabled /\ CallOf({"selectItem"})) =>
         \A itemId \in Nodes, multiple \in BOOLEAN :
             selectItem(itemId, multiple) =>
                 selectedItems' =
                     IF ~multiple THEN Array(<<itemId>>)
                     ELSE IF itemId \in SelectedIds
                     THEN Array(Drop(selectedItems.items, {itemId}))
                     ELSE Array(<<itemId>> \o selectedItems.items)]_vars

\* an additive select has removed its item and kept two others
C4_Witness ==
    /\ Multi /\ Enabled /\ lastCall = "selectItem"
    /\ lastSelectedItem \notin SelectedIds
    /\ Cardinality(SelectedIds) >= 2
    /\ Reported(FALSE) # {} /\ Reported(TRUE) = {}

\* C5: in Single mode selectItem(itemId, multiple) ignores multiple: for either
\* value the resulting selection value is the scalar itemId, never an array and
\* never null.
C5_SelectSingle ==
    [][(~Multi /\ Enabled /\ CallOf({"selectItem"})) =>
         \A itemId \in Nodes, multiple \in BOOLEAN :
             selectItem(itemId, multiple) => selectedItems' = Scalar(itemId)]_vars

\* C6: arrow-step retreat.  In Multi mode, from an empty last range with c0
\* selected and c1, c2 distinct and not selected, the arrow steps (c0, c1) and
\* (c1, c2) followed by the step back (c2, c1) leave c2 neither selected nor in
\* the range, and c0 and c1 selected and in the range.
C6_ArrowRetreat ==
    (Multi /\ Enabled /\ lastSelectedRange = {}) =>
        \A c0 \in SelectedIds : \A c1 \in Nodes \ SelectedIds :
            \A c2 \in Nodes \ (SelectedIds \cup {c1}) :
                LET v1 == arrowNavigationValue(selectedItems, lastSelectedRange, c0, c1)
                    r1 == arrowNavigationLookup(lastSelectedRange, c0, c1)
                    v2 == arrowNavigationValue(v1, r1, c1, c2)
                    r2 == arrowNavigationLookup(r1, c1, c2)
                    v3 == arrowNavigationValue(v2, r2, c2, c1)
                    r3 == arrowNavigationLookup(r2, c2, c1)
                IN  /\ r2 = {c0, c1, c2}
                    /\ c2 \notin IdsOf(v3.items) /\ c2 \notin r3
                    /\ {c0, c1} \subseteq IdsOf(v3.items)
                    /\ {c0, c1} \subseteq r3

\* an arrow step back has deselected the item it left: the range is down to
\* two selected items and the only report is the deselection
C6_Witness ==
    /\ Multi /\ Enabled /\ lastCall = "selectItemFromArrowNavigation"
    /\ Cardinality(lastSelectedRange) = 2
    /\ lastSelectedRange = SelectedIds
    /\ Len(SelectedSeq) = 2
    /\ Reported(TRUE) = {}
    /\ \E i \in Reported(FALSE) : events[i].value.id \notin lastSelectedRange

\* the state that selectItem(itemId, multiple = FALSE) leaves in Multi mode
AfterSelect(itemId) ==
    /\ Multi /\ Enabled /\ lastCall = "selectItem"
    /\ selectedItems = Array(<<itemId>>)
    /\ lastSelectedItem = itemId
    /\ lastSelectedRange = {}

\* C7 as claimed: in Multi mode, after selectItem(a) the call
\* expandSelectionRange(b) leaves exactly the navigable ids between a and b
\* selected, in the tree order of the time of the call.
C7_ShiftClick ==
    [][CallOf({"expandSelectionRange"}) =>
         \A a, b \in Nodes :
             (AfterSelect(a) /\ expandSelectionRange(b)) =>
                 IdsOf(selectedItems'.items) = IdsOf(getNonDisabledItemsInRange(a, b))]_vars

\* C7 as amended: in Multi mode with selection enabled, after selectItem(a) the
\* call expandSelectionRange(b) leaves a selected, followed by the other
\* navigable ids between a and b in the tree order of the time of the call, and
\* nothing else; a stays selected also when it is not navigable at that time.
C7_ShiftClickKeepsAnchor ==
    [][CallOf({"expandSelectionRange"}) =>
         \A a, b \in Nodes :
             (AfterSelect(a) /\ expandSelectionRange(b)) =>
                 selectedItems' =
                     Array(<<a>> \o Drop(getNonDisabledItemsInRange(a, b), {a}))]_vars

\* a shift-click after the root items were swapped: the range runs from item 3
\* to item 1 in the new order and leaves out the navigable item 2 behind them
C7_Witness ==
    /\ Multi /\ Enabled /\ lastCall = "expandSelectionRange"
    /\ orderedChildren[NoItem] = <<3, 1>>
    /\ isItemNavigable(2)
    /\ lastSelectedItem = 3
    /\ selectedItems = Array(<<3, 1>>)
    /\ lastSelectedRange = {1, 3}

\* C8: in Multi mode with selection enabled, selectAllNavigableItems sets the
\* value to all navigable ids in tree order, whatever was selected, and the
\* last range to that id set.
C8_SelectAll ==
    [][(Multi /\ Enabled /\ CallOf({"selectAllNavigableItems"})) =>
         LET navigable == SelectSeq(allItems, isItemNavigable)
         IN  /\ selectedItems' = Array(navigable)
             /\ lastSelectedRange' = IdsOf(navigable)]_vars

\* select-all has dropped a selected item that is not navigable and added others
C8_Witness ==
    /\ Multi /\ Enabled /\ lastCall = "selectAllNavigableItems"
    /\ Reported(FALSE) # {} /\ Reported(TRUE) # {}
    /\ Len(SelectedSeq) >= 2
    /\ SelectedSeq = getAllNavigableItems
    /\ lastSelectedRange = SelectedIds

\* C9: while disableSelection is set, every engine method leaves the value, the
\* anchor and the last range as they are and invokes no callback.
C9_DisabledNoOp ==
    [][(params.disableSelection /\ CallOf({"selectItem"} \cup MultiOnlyMethods)) =>
         /\ UNCHANGED <<selectedItems, lastSelectedItem, lastSelectedRange>>
         /\ events' = <<>>]_vars

\* a call made while selection is disabled, on a state with a selection, an
\* anchor and a range: with the aggregate callback given, only a call that
\* returned early leaves no callback behind
C9_Witness ==
    /\ params.disableSelection /\ params.onSelectedItemsChange
    /\ lastCall \in MultiOnlyMethods
    /\ events = <<>>
    /\ SelectedIds # {} /\ lastSelectedItem # NoItem /\ lastSelectedRange # {}

\* C10: in Single mode every Multi-only method is a no-op: the value, the
\* anchor and the last range are unchanged and no callback is invoked.
C10_SingleNoOp ==
    [][(~Multi /\ CallOf(MultiOnlyMethods)) =>
         /\ UNCHANGED <<selectedItems, lastSelectedItem, lastSelectedRange>>
         /\ events' = <<>>]_vars

\* a Multi-only method was called in Single mode with an item selected
C10_Witness ==
    /\ ~Multi /\ Enabled /\ lastCall \in MultiOnlyMethods
    /\ selectedItems \in {Scalar(id) : id \in Nodes}
    /\ lastSelectedItem = selectedItems.id
    /\ events = <<>>

\* C11: expandSelectionRange(itemId) called while the anchor is unset is a
\* no-op: the value, the anchor and the last range are unchanged and no callback
\* is invoked; with the anchor set it does what selectRange does on the anchor
\* and itemId, the one that comes first in document order given first.
C11_ExtendFromAnchor ==
    [][CallOf({"expandSelectionRange"}) =>
         IF lastSelectedItem = NoItem
         THEN /\ UNCHANGED <<selectedItems, lastSelectedItem, lastSelectedRange>>
              /\ events' = <<>>
         ELSE \E itemId \in Nodes :
                  LET all    == allItems
                      before == IndexOf(all, lastSelectedItem) <= IndexOf(all, itemId)
                      first  == IF before THEN lastSelectedItem ELSE itemId
                      second == IF before THEN itemId ELSE lastSelectedItem
                  IN  selectRange(first, second)]_vars

\* a shift-click without an anchor, on a selection and a last range that a
\* range call would have changed
C11_Witness ==
    /\ Multi /\ Enabled /\ lastCall = "expandSelectionRange"
    /\ lastSelectedItem = NoItem
    /\ events = <<>>
    /\ Cardinality(SelectedIds) >= 2 /\ lastSelectedRange # {}

\* C12: the anchor is changed by selectItem only: the three entry points of
\* selectRange, selectAllNavigableItems and selectItemFromArrowNavigation leave
\* it as it was, and so does every step of the host.
C12_AnchorFrame ==
    [][/\ CallOf(MultiOnlyMethods) => UNCHANGED lastSelectedItem
       /\ lastSelectedItem' # lastSelectedItem => CallOf({"selectItem"})]_vars

\* the anchor has outlived its own deselection by a later range operation
C12_Witness ==
    /\ Multi /\ Enabled /\ lastCall \in MultiOnlyMethods
    /\ lastSelectedItem \in Nodes
    /\ lastSelectedItem \notin SelectedIds
    /\ SelectedIds # {} /\ lastSelectedRange # {}
    /\ Reported(FALSE) # {}

AllMethods == {"selectItem"} \cup MultiOnlyMethods

\* a call that reaches setSelectedItems: selection is enabled, the method is
\* allowed in the mode, and a shift-click has an anchor
Mutates ==
    /\ Enabled /\ CallOf(AllMethods)
    /\ lastCall' \in MultiOnlyMethods => Multi
    /\ lastCall' = "expandSelectionRange" => lastSelectedItem # NoItem

\* the number of calls of onItemSelectionToggle(item, isSelected) among the
\* callbacks of the step
TogglesIn(log, item, isSelected) ==
    Cardinality({i \in DOMAIN log : log[i] = Toggle(item, isSelected)})

\* C13: in Multi mode with both callbacks given, every call that reaches
\* setSelectedItems invokes, in this order: onItemSelectionToggle(id, true) for
\* the added ids in the order of the new value, onItemSelectionToggle(id, false)
\* for the removed ids in the order of the old value, and onSelectedItemsChange
\* once, with the whole new value.
C13_MultiOrder ==
    [][(/\ Multi /\ params.onItemSelectionToggle /\ params.onSelectedItemsChange
        /\ Mutates) =>
         LET old     == selectedItems.items
             new     == selectedItems'.items
             added   == Drop(new, IdsOf(old))
             removed == Drop(old, IdsOf(new))
         IN  events' = [i \in 1 .. Len(added) |-> Toggle(Scalar(added[i]), TRUE)]
                       \o [i \in 1 .. Len(removed) |-> Toggle(Scalar(removed[i]), FALSE)]
                       \o <<Change(selectedItems')>>]_vars

\* a call has reported two added items, then a removed one, then the new value
C13_Witness ==
    /\ Multi /\ Enabled /\ lastCall \in AllMethods
    /\ Len(events) >= 4
    /\ events[1].isSelected /\ events[2].isSelected
    /\ events[Len(events) - 1] \in {Toggle(Scalar(id), FALSE) : id \in Nodes}
    /\ events[Len(events)] = Change(selectedItems)

\* C14: for every call that reaches setSelectedItems, the calls of
\* onItemSelectionToggle match the difference of the selection: one (id, true)
\* for each id selected after and not before, one (id, false) for each id
\* selected before and not after, and no other call.
C14_TogglesMatchDiff ==
    [][(params.onItemSelectionToggle /\ Mutates) =>
         LET before == SelectedIds
             after  == IdsOf(convertSelectedItemsToArray(selectedItems'))
         IN  /\ \A id \in Nodes :
                    /\ TogglesIn(events', Scalar(id), TRUE) =
                           IF id \in after \ before THEN 1 ELSE 0
                    /\ TogglesIn(events', Scalar(id), FALSE) =
                           IF id \in before \ after THEN 1 ELSE 0
             /\ \A i \in DOMAIN events' :
                    events'[i].callback = "onItemSelectionToggle" =>
                        events'[i].value \in {Scalar(id) : id \in Nodes}]_vars

\* C15: in Single mode, when selectItem replaces the selected id x by another
\* id y, onItemSelectionToggle(y, true) is invoked before
\* onItemSelectionToggle(x, false), and onSelectedItemsChange comes last.
C15_SingleOrder ==
    [][(/\ ~Multi /\ params.onItemSelectionToggle /\ params.onSelectedItemsChange
        /\ Enabled /\ CallOf({"selectItem"})) =>
         \A x \in Nodes : \A y \in Nodes \ {x} :
             (selectedItems = Scalar(x) /\ selectedItems' = Scalar(y)) =>
                 events' = <<Toggle(Scalar(y), TRUE), Toggle(Scalar(x), FALSE),
                             Change(Scalar(y))>>]_vars

\* C16: no partial mutation is observable.  While a call of selectItem, of
\* selectRange (through its entry points), of selectAllNavigableItems or of
\* selectItemFromArrowNavigation is inside the callbacks of setSelectedItems,
\* the triple (anchor, last range, value) is either the triple at the entry of
\* the call or the triple the call leaves when it returns.
C16_NoPartialMutation ==
    [][(frame.pc = "notify" /\ frame'.pc = "idle") =>
         (Triple = frame.entry \/ Triple = Triple')]_vars

\* C17: range symmetry.  In Multi mode with selection enabled, from any state
\* selectRange(a, b) and selectRange(b, a) yield the same value (same ids in
\* the same order) and the same last range, for every pair of items.
C17_RangeSymmetry ==
    (Multi /\ Enabled) =>
        \A a \in Nodes : \A b \in Nodes \ {a} :
            /\ selectRangeValue(selectedItems, lastSelectedRange, a, b) =
                   selectRangeValue(selectedItems, lastSelectedRange, b, a)
            /\ selectRangeLookup(a, b) = selectRangeLookup(b, a)

\* a shift-click on an item that precedes the anchor: the range ends at the
\* anchor in document order, and the value starts with the anchor
C17_Witness ==
    /\ Multi /\ Enabled /\ lastCall = "expandSelectionRange"
    /\ Cardinality(lastSelectedRange) >= 2
    /\ lastSelectedItem \in lastSelectedRange
    /\ \A id \in lastSelectedRange :
           IndexOf(allItems, id) <= IndexOf(allItems, lastSelectedItem)
    /\ lastSelectedRange = SelectedIds
    /\ SelectedSeq[1] = lastSelectedItem

\* C18: selectItem(itemId, multiple = FALSE) is idempotent on the value: from
\* any state the second of two such calls leaves the value of the first, which
\* is the scalar itemId in Single mode and [itemId] in Multi mode.
C18_SelectIdempotent ==
    Enabled =>
        \A itemId \in Nodes :
            LET first  == selectItemValue(selectedItems, itemId, FALSE)
                second == selectItemValue(first, itemId, FALSE)
            IN  /\ second = first
                /\ first = IF Multi THEN Array(<<itemId>>) ELSE Scalar(itemId)

\* a plain click on the only selected item: the value is kept, no item is
\* reported and the anchor is the item
C18_Witness ==
    /\ Enabled /\ lastCall = "selectItem"
    /\ lastSelectedItem \in Nodes
    /\ selectedItems = (IF Multi THEN Array(<<lastSelectedItem>>)
                        ELSE Scalar(lastSelectedItem))
    /\ Reported(TRUE) = {} /\ Reported(FALSE) = {}
    /\ events = <<Change(selectedItems)>>

\* C19: in Multi mode, selectItemFromArrowNavigation(currentItem, nextItem) on
\* a last range that is not empty and does not hold currentItem appends
\* nextItem to the value and leaves {nextItem} as the last range; on an empty
\* last range it appends nextItem and leaves {currentItem, nextItem}.
C19_ArrowReset ==
    (Multi /\ Enabled) =>
        \A currentItem \in Nodes : \A nextItem \in Nodes \ {currentItem} :
            LET value  == arrowNavigationValue(selectedItems, lastSelectedRange,
                                               currentItem, nextItem)
                lookup == arrowNavigationLookup(lastSelectedRange, currentItem, nextItem)
            IN  /\ (lastSelectedRange # {} /\ currentItem \notin lastSelectedRange) =>
                       /\ value = Array(SelectedSeq \o <<nextItem>>)
                       /\ lookup = {nextItem}
                /\ lastSelectedRange = {} =>
                       /\ value = Array(SelectedSeq \o <<nextItem>>)
                       /\ lookup = {currentItem, nextItem}

\* an arrow step from outside the last range: the range is down to the item
\* reached, which was added at the end of a value of three ids
C19_Witness ==
    /\ Multi /\ Enabled /\ lastCall = "selectItemFromArrowNavigation"
    /\ Cardinality(lastSelectedRange) = 1
    /\ Len(SelectedSeq) = 3 /\ Cardinality(SelectedIds) = 3
    /\ SelectedSeq[3] \in lastSelectedRange
    /\ events = <<Toggle(Scalar(SelectedSeq[3]), TRUE), Change(selectedItems)>>

\* C20: in Multi mode the value never holds an id more than once.
C20_NoDuplicates ==
    Multi => Cardinality(SelectedIds) = Len(SelectedSeq)

====
